---- MODULE Spec2Model ----
(***************************************************************************)
(* A model of app_streamlit.py: the read-only query functions of the TMDB  *)
(* dashboard over a Redis store (a set of movie keys, one hash per movie,  *)
(* sorted-set ranking indexes, a title -> key hash).                       *)
(*                                                                         *)
(* Text is modelled as a sequence of lexical units: one-character strings  *)
(* for numeric and title text, JSON tokens for the serialized genres.      *)
(* A Python float is modelled in fixed point, in tenths (Scale), with the  *)
(* two non-finite values inf and nan kept apart.                           *)
(***************************************************************************)
EXTENDS Integers, Sequences, FiniteSets, TLC

VARIABLES
    tmdb_movies,   \* list(db.smembers("tmdb:movies")): the keys in enumeration order
    hashes,        \* key -> field name -> optional text (the per-movie hashes)
    zsets,         \* index name -> sequence of [member, score], descending score
    title_to_key,  \* "tmdb:idx:title_to_key": normalized title -> optional key
    pc,            \* position of the running call: "idle", a loop label, "done", "raised"
    args,          \* the arguments of the running call
    loc,           \* its local variables
    ret,           \* the returned list (once pc = "done"); a returned tuple or
                   \* dict is held as a list of one record
    trips          \* round trips issued to the store by the running call

vars == <<tmdb_movies, hashes, zsets, title_to_key, pc, args, loc, ret, trips>>
store == <<tmdb_movies, hashes, zsets, title_to_key>>

\* ------------------------------------------------------------------ bounds

MaxMovies == 3     \* most keys in the collection / entries in an index
MaxBatch == 3      \* largest batch_size tried
MaxLimit == 3      \* largest limit / max_results / top_n tried
PageSize == 2      \* get_best_rated's page ("batch = 200"), scaled down
SearchBatch == 2   \* search_by_title_keyword's batch_size (200), scaled down
MaxCoerce == 2     \* most records in the store of the coercion checks

\* ------------------------------------------------------------- generic helpers

Min(a, b) == IF a <= b THEN a ELSE b
Max(a, b) == IF a >= b THEN a ELSE b

\* Python's s[lo:hi] on a 0-based list, for 0 <= lo: 1-based items lo+1 .. min(hi, len).
Slice(s, lo, hi) ==
    IF Min(hi, Len(s)) <= lo THEN <<>> ELSE SubSeq(s, lo + 1, Min(hi, Len(s)))

\* All sequences of length <= n over S without repetition.
DistinctSeqs(S, n) ==
    UNION {{s \in [1..k -> S] : \A i, j \in 1..k : i # j => s[i] # s[j]} : k \in 0..n}

Range(s) == {s[i] : i \in DOMAIN s}

\* ------------------------------------------------------------ optional text

None == [some |-> FALSE, text |-> <<>>]
Str(t) == [some |-> TRUE, text |-> t]
\* Python truthiness of an optional string: None and "" are falsy.
Truthy(v) == v.some /\ v.text # <<>>

KeyNames == <<"m1", "m2", "m3", "m4">>
Keys == {KeyNames[i] : i \in 1..Min(MaxMovies, Len(KeyNames))}
AllFields == {"title", "release_date", "runtime", "vote_average", "vote_count",
              "popularity", "revenue", "genres", "overview"}
NoHash == [f \in AllFields |-> None]

\* pipe.hmget(k, *field_names): one slot per requested field, None where absent.
hmget(k, field_names) == [i \in 1..Len(field_names) |-> hashes[k][field_names[i]]]

\* ------------------------------------------------------------ Python float

\* A finite float x is held in fixed point as the integer 10 * x.

Digits == {"0", "1", "2", "3", "4", "5", "6", "7", "8", "9"}
DigitVal(c) ==
    CASE c = "0" -> 0 [] c = "1" -> 1 [] c = "2" -> 2 [] c = "3" -> 3 [] c = "4" -> 4
      [] c = "5" -> 5 [] c = "6" -> 6 [] c = "7" -> 7 [] c = "8" -> 8 [] c = "9" -> 9

RECURSIVE DigitsVal(_)
DigitsVal(s) ==
    IF s = <<>> THEN 0
    ELSE DigitsVal(SubSeq(s, 1, Len(s) - 1)) * 10 + DigitVal(s[Len(s)])

\* str.strip(): leading and trailing blanks removed.
RECURSIVE LStrip(_)
LStrip(t) == IF t # <<>> /\ t[1] = " " THEN LStrip(Tail(t)) ELSE t
RECURSIVE RStrip(_)
RStrip(t) ==
    IF t # <<>> /\ t[Len(t)] = " " THEN RStrip(SubSeq(t, 1, Len(t) - 1)) ELSE t
strip(t) == LStrip(RStrip(t))

Num(v) == [ok |-> TRUE, kind |-> "num", v |-> v]
Inf(sign) == [ok |-> TRUE, kind |-> "inf", v |-> sign]
NaN == [ok |-> TRUE, kind |-> "nan", v |-> 0]
ValueError == [ok |-> FALSE, kind |-> "err", v |-> 0]

\* float(text) for unsigned text without blanks: digits with at most one point
\* (texts of the model carry at most one fractional digit), "inf", "nan".
FloatUnsigned(b) ==
    LET dots == {i \in 1..Len(b) : b[i] = "."}
        d    == CHOOSE i \in dots : TRUE
        ip   == IF dots = {} THEN b ELSE SubSeq(b, 1, d - 1)
        fp   == IF dots = {} THEN <<>> ELSE SubSeq(b, d + 1, Len(b))
    IN  IF b = <<"i", "n", "f">> THEN Inf(1)
        ELSE IF b = <<"n", "a", "n">> THEN NaN
        ELSE IF Cardinality(dots) > 1 THEN ValueError
        ELSE IF Len(ip) + Len(fp) = 0 THEN ValueError
        ELSE IF \E i \in 1..Len(ip) : ip[i] \notin Digits THEN ValueError
        ELSE IF \E i \in 1..Len(fp) : fp[i] \notin Digits THEN ValueError
        ELSE Num(DigitsVal(ip) * 10 + (IF fp = <<>> THEN 0 ELSE DigitVal(fp[1])))

Negate(x) ==
    IF ~x.ok \/ x.kind = "nan" THEN x
    ELSE [x EXCEPT !.v = 0 - x.v]

\* float(str): blanks around the number are accepted, then an optional sign.
float(t) ==
    LET b == strip(t)
    IN  IF b = <<>> THEN ValueError
        ELSE IF b[1] = "-" THEN Negate(FloatUnsigned(Tail(b)))
        ELSE IF b[1] = "+" THEN FloatUnsigned(Tail(b))
        ELSE FloatUnsigned(b)

safe_float(value, default) ==
    IF ~value.some THEN default
    ELSE IF float(value.text).ok THEN float(value.text)
    ELSE default

\* x > n and x >= n for a float x and an integer n (a comparison with nan is false).
FloatGt(x, n) ==
    CASE x.kind = "num" -> x.v > n * 10
      [] x.kind = "inf" -> x.v > 0
      [] x.kind = "nan" -> FALSE

\* int(x): truncation toward zero; OverflowError on inf, ValueError on nan.
int(x) ==
    IF x.kind # "num" THEN [ok |-> FALSE, v |-> 0]
    ELSE [ok |-> TRUE, v |-> IF x.v >= 0 THEN x.v \div 10 ELSE 0 - ((0 - x.v) \div 10)]

\* The state before any call, and the parts of the store a query does not read.
Idle == pc = "idle" /\ args = <<>> /\ loc = <<>> /\ ret = <<>> /\ trips = 0
NoIndexes == [n \in {"popularity", "vote_average", "release_date", "revenue"} |-> <<>>]
NoTitles == <<>>

\* ------------------------------------------------------ iter_movies_fields

\* One pipelined round trip: the batch members[i : i + batch_size] and, zipped
\* with it, the hmget result of each of its keys.
IterBatch_short(members, i, field_names, batch_size) ==
    LET batch == Slice(members, i, i + batch_size - 1)
    IN  [j \in 1..Len(batch) |-> [k |-> batch[j], vals |-> hmget(batch[j], field_names)]]

IterBatch(members, i, field_names, batch_size) ==
    LET batch == Slice(members, i, i + batch_size)
    IN  [j \in 1..Len(batch) |-> [k |-> batch[j], vals |-> hmget(batch[j], field_names)]]

\* The whole generator, drained: for i in range(0, len(members), batch_size).
RECURSIVE IterFrom(_, _, _, _)
IterFrom(members, i, field_names, batch_size) ==
    IF i >= Len(members) THEN <<>>
    ELSE IterBatch(members, i, field_names, batch_size)
         \o IterFrom(members, i + batch_size, field_names, batch_size)

iter_movies_fields(field_names, batch_size) ==
    IterFrom(tmdb_movies, 0, field_names, batch_size)

\* The generator as the caller drives it, one batch per step.
FetchFieldLists ==
    {<<"title">>, <<"runtime">>, <<"title", "runtime">>, <<"runtime", "title">>,
     <<"overview", "title">>}

iter_call ==
    /\ pc = "idle"
    /\ \E fl \in FetchFieldLists, bs \in 1..MaxBatch :
         args' = [op |-> "iter_movies_fields", field_names |-> fl, batch_size |-> bs]
    /\ loc' = [members |-> tmdb_movies, i |-> 0, yielded |-> <<>>]
    /\ pc' = "iter_loop"
    /\ trips' = trips + 1
    /\ UNCHANGED <<store, ret>>

iter_batch ==
    /\ pc = "iter_loop"
    /\ loc.i < Len(loc.members)
    /\ loc' = [loc EXCEPT
                 !.yielded = @ \o IterBatch(loc.members, loc.i, args.field_names,
                                            args.batch_size),
                 !.i = @ + args.batch_size]
    /\ trips' = trips + 1
    /\ UNCHANGED <<store, pc, args, ret>>

iter_end ==
    /\ pc = "iter_loop"
    /\ loc.i >= Len(loc.members)
    /\ pc' = "done"
    /\ ret' = loc.yielded
    /\ UNCHANGED <<store, args, loc, trips>>

FetchHashes ==
    {NoHash,
     [NoHash EXCEPT !.title = Str(<<"a">>)],
     [NoHash EXCEPT !.title = Str(<<"b">>), !.runtime = Str(<<"9">>)]}

InitFetch ==
    /\ tmdb_movies \in DistinctSeqs(Keys, MaxMovies)
    /\ hashes \in {h \in [Keys -> FetchHashes] :
                     \A k \in Keys \ Range(tmdb_movies) : h[k] = NoHash}
    /\ zsets = NoIndexes
    /\ title_to_key = NoTitles
    /\ Idle

NextFetch == iter_call \/ iter_batch \/ iter_end
SpecFetch == InitFetch /\ [][NextFetch]_vars

\* What the claim expects: one pair per key, in enumeration order, one slot per
\* requested field in the requested order, None for a field the store lacks.
FetchExpected ==
    [j \in 1..Len(tmdb_movies) |->
       [k |-> tmdb_movies[j],
        vals |-> [i \in 1..Len(args.field_names) |->
                    hashes[tmdb_movies[j]][args.field_names[i]]]]]

zrevrange(name, start, end) ==
    LET z  == zsets[name]
        n  == Len(z)
        s0 == IF start < 0 THEN Max(n + start, 0) ELSE start
        e0 == IF end < 0 THEN n + end ELSE Min(end, n - 1)
    IN  IF s0 > e0 \/ s0 >= n THEN <<>>
        ELSE [i \in 1..(e0 - s0 + 1) |-> z[s0 + i].member]

\* An index holding the first k keys, best first (the scores fall with the rank).
RankedIndex(k) == [i \in 1..k |-> [member |-> KeyNames[i], score |-> k - i]]

Untitled == <<"(untitled)">>
\* title or "(untitled)"
TitleOr(t) == IF Truthy(t) THEN t.text ELSE Untitled

\* ---------------------------------------------------------- get_best_rated

\* votes >= min_votes
Qualifies_positive(votes, min_votes) == votes >= 0
Qualifies(votes, min_votes) == votes >= min_votes

\* The loop over the rows of one page: each row's vote_count is coerced with
\* int(safe_float(vcnt, 0)), which raises on nan and inf; a qualifying row is
\* appended, and the loop breaks once `limit` results are held.
RECURSIVE BestRows(_, _, _, _)
BestRows(rows, results, min_votes, limit) ==
    IF rows = <<>> THEN [raised |-> FALSE, results |-> results]
    ELSE LET row   == rows[1]
             votes == int(safe_float(row[3], Num(0)))
         IN  IF ~votes.ok THEN [raised |-> TRUE, results |-> results]
             ELSE IF Qualifies(votes.v, min_votes)
             THEN LET r2 == Append(results,
                                   [title |-> TitleOr(row[1]),
                                    rating |-> safe_float(row[2], Num(0)),
                                    votes |-> votes.v])
                  IN  IF Len(r2) >= limit
                      THEN [raised |-> FALSE, results |-> r2]
                      ELSE BestRows(Tail(rows), r2, min_votes, limit)
             ELSE BestRows(Tail(rows), results, min_votes, limit)

BestFields == <<"title", "vote_average", "vote_count">>

\* The page at `start`: zrevrange(start, start + batch - 1).
BestChunk(start) == zrevrange("vote_average", start, start + PageSize - 1)

best_call ==
    /\ pc = "idle"
    /\ \E mv \in 0..MaxLimit, lim \in 0..MaxLimit :
         args' = [op |-> "get_best_rated", min_votes |-> mv, limit |-> lim]
    /\ loc' = [results |-> <<>>, start |-> 0, pages |-> 0, last_empty |-> FALSE]
    /\ pc' = "best_loop"
    /\ UNCHANGED <<store, ret, trips>>

\* One iteration of `while len(results) < limit` whose page is not empty.
best_page ==
    /\ pc = "best_loop"
    /\ Len(loc.results) < args.limit
    /\ BestChunk(loc.start) # <<>>
    /\ LET chunk == BestChunk(loc.start)
           rows  == [i \in 1..Len(chunk) |-> hmget(chunk[i], BestFields)]
           out   == BestRows(rows, loc.results, args.min_votes, args.limit)
       IN  /\ loc' = [loc EXCEPT !.results = out.results,
                                 !.start = IF out.raised THEN @ ELSE @ + PageSize,
                                 !.pages = @ + 1]
           /\ pc' = IF out.raised THEN "raised" ELSE "best_loop"
    /\ trips' = trips + 2
    /\ UNCHANGED <<store, args, ret>>

\* The iteration that gets an empty page: break, return results.
best_empty_page ==
    /\ pc = "best_loop"
    /\ Len(loc.results) < args.limit
    /\ BestChunk(loc.start) = <<>>
    /\ loc' = [loc EXCEPT !.pages = @ + 1, !.last_empty = TRUE]
    /\ pc' = "done"
    /\ ret' = loc.results
    /\ trips' = trips + 1
    /\ UNCHANGED <<store, args>>

\* The loop condition fails: return results.
best_return ==
    /\ pc = "best_loop"
    /\ Len(loc.results) >= args.limit
    /\ pc' = "done"
    /\ ret' = loc.results
    /\ UNCHANGED <<store, args, loc, trips>>

\* vote_count texts: absent, not a number, 1, 2.9 (int gives 2), " 3 ", nan.
VoteTexts ==
    {None, Str(<<"x">>), Str(<<"1">>), Str(<<"2", ".", "9">>), Str(<<" ", "3", " ">>),
     Str(<<"n", "a", "n">>)}

BestHash(k, vc) ==
    IF vc = None THEN NoHash
    ELSE [NoHash EXCEPT !.title = Str(<<k>>),
                        !.vote_average = Str(<<"8", ".", "5">>),
                        !.vote_count = vc]

InitBest ==
    /\ tmdb_movies = <<>>
    /\ \E n \in 0..MaxMovies :
         /\ zsets = [NoIndexes EXCEPT !.vote_average = RankedIndex(n)]
         /\ \E vc \in [Keys -> VoteTexts] :
              /\ \A k \in Keys : (\A i \in 1..n : KeyNames[i] # k) => vc[k] = None
              /\ hashes = [k \in Keys |-> BestHash(k, vc[k])]
    /\ title_to_key = NoTitles
    /\ Idle

NextBest == best_call \/ best_page \/ best_empty_page \/ best_return
SpecBest == InitBest /\ [][NextBest]_vars

\* The triple the code builds for an index entry whose vote_count coerces.
BestTriple(k) ==
    [title |-> TitleOr(hashes[k].title),
     rating |-> safe_float(hashes[k].vote_average, Num(0)),
     votes |-> int(safe_float(hashes[k].vote_count, Num(0))).v]

\* What the call holds so far, or has returned.
BestHeld == IF pc = "done" THEN ret ELSE loc.results

\* C1: every triple get_best_rated returns (or holds while it pages) is the
\* triple of an index entry and has votes >= min_votes, votes being
\* int(safe_float(vote_count)), on the first page and on the later ones.
C1_BestRatedThreshold ==
    pc \in {"best_loop", "done", "raised"} =>
      \A j \in 1..Len(BestHeld) :
        /\ BestHeld[j].votes >= args.min_votes
        /\ \E i \in 1..Len(zsets.vote_average) :
             /\ int(safe_float(hashes[zsets.vote_average[i].member].vote_count, Num(0))).ok
             /\ BestHeld[j] = BestTriple(zsets.vote_average[i].member)

\* C1 witness: a result filled over two pages, under a threshold that rejected an
\* entry of the first page.
C1_Witness ==
    /\ pc = "done"
    /\ loc.pages >= 2
    /\ args.min_votes = 2
    /\ Len(ret) = 2
    /\ \E i \in 1..PageSize :
         /\ i <= Len(zsets.vote_average)
         /\ hashes[zsets.vote_average[i].member].vote_count = Str(<<"1">>)
    /\ ret = loc.results

\* The index entries that qualify, best first: vote_count coerces to an integer
\* that is >= min_votes.
BestQualifying ==
    SelectSeq([i \in 1..Len(zsets.vote_average) |-> zsets.vote_average[i].member],
              LAMBDA k : LET c == int(safe_float(hashes[k].vote_count, Num(0)))
                         IN  c.ok /\ c.v >= args.min_votes)

\* C9 (first part): get_best_rated terminates with a result, for every index.
C9_Returns == pc # "raised"

\* C9 (second part): the result is exactly the first min(limit, Q) qualifying
\* entries in index order, none skipped and none twice.
C9_ExactPrefix ==
    pc = "done" =>
      ret = [j \in 1..Min(args.limit, Len(BestQualifying)) |-> BestTriple(BestQualifying[j])]

\* C9 (third part): no page is requested once `limit` results are held or an
\* empty page has come back.
C9_NoExtraPage ==
    [][(pc = "best_loop" /\ (Len(loc.results) >= args.limit \/ loc.last_empty))
         => loc'.pages = loc.pages]_vars

\* C9: for every index, min_votes and limit, get_best_rated terminates and
\* returns exactly the first min(limit, Q) qualifying entries in descending
\* index order (the claim as stated, as a state predicate).
C9_BestRatedPaging == C9_Returns /\ C9_ExactPrefix

\* ------------------------------------------- get_top_popular, get_box_office_top

\* One hmget per member, then (title or "(untitled)", safe_float(value)).
TopRows(members, field) ==
    [i \in 1..Len(members) |->
       [title |-> TitleOr(hmget(members[i], <<"title", field>>)[1]),
        value |-> safe_float(hmget(members[i], <<"title", field>>)[2], Num(0))]]

get_top_popular(limit) ==
    LET members == zrevrange("popularity", 0, limit - 1)
    IN  IF members = <<>> THEN <<>> ELSE TopRows(members, "popularity")

get_box_office_top(limit) ==
    TopRows(zrevrange("revenue", 0, limit - 1), "revenue")

top_popular_call ==
    /\ pc = "idle"
    /\ \E lim \in 0..MaxLimit :
         /\ args' = [op |-> "get_top_popular", limit |-> lim]
         /\ ret' = get_top_popular(lim)
         /\ trips' = IF zrevrange("popularity", 0, lim - 1) = <<>> THEN 1 ELSE 2
    /\ pc' = "done"
    /\ UNCHANGED <<store, loc>>

box_office_call ==
    /\ pc = "idle"
    /\ \E lim \in 0..MaxLimit :
         /\ args' = [op |-> "get_box_office_top", limit |-> lim]
         /\ ret' = get_box_office_top(lim)
    /\ pc' = "done"
    /\ trips' = 2
    /\ UNCHANGED <<store, loc>>

\* The hashes of the model: nothing; title and numbers; empty title and text
\* that is no number; a popularity of inf and no revenue.
TopHash(k, v) ==
    CASE v = 1 -> NoHash
      [] v = 2 -> [NoHash EXCEPT !.title = Str(<<k>>), !.popularity = Str(<<"7", ".", "5">>),
                                 !.revenue = Str(<<"9", "0", "0">>)]
      [] v = 3 -> [NoHash EXCEPT !.title = Str(<<>>), !.popularity = Str(<<"x">>),
                                 !.revenue = Str(<<>>)]
      [] v = 4 -> [NoHash EXCEPT !.title = Str(<<k>>), !.popularity = Str(<<"i", "n", "f">>)]

InitTop ==
    /\ tmdb_movies = <<>>
    /\ \E n \in 0..MaxMovies, m \in 0..MaxMovies :
         /\ zsets = [NoIndexes EXCEPT !.popularity = RankedIndex(n),
                                      !.revenue = RankedIndex(m)]
         /\ \E v \in [1..Max(n, m) -> 1..4] :
              hashes = [k \in Keys |->
                          IF \E i \in 1..Max(n, m) : KeyNames[i] = k
                          THEN TopHash(k, v[CHOOSE i \in 1..Max(n, m) : KeyNames[i] = k])
                          ELSE NoHash]
    /\ title_to_key = NoTitles
    /\ Idle

NextTop == top_popular_call \/ box_office_call
SpecTop == InitTop /\ [][NextTop]_vars

TopIndexOf == IF args.op = "get_top_popular" THEN "popularity" ELSE "revenue"

\* C3: get_top_popular and get_box_office_top return the rows of the first
\* `limit` entries of their index, best first, and nothing else: min(limit, size
\* of the index) rows, the j-th being the row of the j-th entry.
C3_TopLimit ==
    pc = "done" =>
      /\ Len(ret) = Min(args.limit, Len(zsets[TopIndexOf]))
      /\ Len(ret) <= args.limit
      /\ \A j \in 1..Len(ret) :
           LET k == zsets[TopIndexOf][j].member
           IN  /\ ret[j].title = TitleOr(hashes[k][("title")])
               /\ ret[j].value = safe_float(hashes[k][TopIndexOf], Num(0))

\* ------------------------------------------------------------ get_new_releases

DigitChar(d) ==
    CASE d = 0 -> "0" [] d = 1 -> "1" [] d = 2 -> "2" [] d = 3 -> "3" [] d = 4 -> "4"
      [] d = 5 -> "5" [] d = 6 -> "6" [] d = 7 -> "7" [] d = 8 -> "8" [] d = 9 -> "9"

\* str(n) for n >= 0, then zero-padded on the left to `width` (f"{n:0{width}d}").
RECURSIVE DecimalText(_)
DecimalText(n) ==
    IF n < 10 THEN <<DigitChar(n)>> ELSE Append(DecimalText(n \div 10), DigitChar(n % 10))
RECURSIVE ZeroPad(_, _)
ZeroPad(t, width) == IF Len(t) >= width THEN t ELSE ZeroPad(<<"0">> \o t, width)

\* min_score = int(f"{min_year:04d}0101")
min_score_prev(min_year) ==
    DigitsVal(ZeroPad(DecimalText(Max(min_year - 1, 0)), 4) \o <<"0", "1", "0", "1">>)
min_score(min_year) ==
    DigitsVal(ZeroPad(DecimalText(min_year), 4) \o <<"0", "1", "0", "1">>)

\* db.zrevrangebyscore(name, "+inf", min, start=0, num=num): the members whose
\* score is >= min, best first, at most num of them (all of them if num < 0).
zrevrangebyscore(name, min, num) ==
    LET hit == SelectSeq(zsets[name], LAMBDA e : e.score >= min)
        n   == IF num < 0 THEN Len(hit) ELSE Min(num, Len(hit))
    IN  [i \in 1..n |-> hit[i].member]

get_new_releases(min_year, limit) ==
    LET members == zrevrangebyscore("release_date", min_score(min_year), limit)
    IN  [i \in 1..Len(members) |->
           LET row == hmget(members[i], <<"title", "release_date">>)
           IN  [title |-> TitleOr(row[1]),
                date |-> IF Truthy(row[2]) THEN row[2].text ELSE <<>>]]

MinYears == {999, 1999, 2000, 2001}

new_releases_call ==
    /\ pc = "idle"
    /\ \E y \in MinYears, lim \in 0..MaxLimit :
         /\ args' = [op |-> "get_new_releases", min_year |-> y, limit |-> lim]
         /\ ret' = get_new_releases(y, lim)
    /\ pc' = "done"
    /\ trips' = 2
    /\ UNCHANGED <<store, loc>>

\* The store side (the ingestion, outside this program): a release date is kept
\* in the hash as the text YYYY-MM-DD and in the index as the integer YYYYMMDD.
Dates ==
    {[y |-> 1999, m |-> 12, d |-> 31], [y |-> 2000, m |-> 1, d |-> 1],
     [y |-> 2000, m |-> 6, d |-> 15], [y |-> 2001, m |-> 1, d |-> 1]}
DateText(dt) ==
    ZeroPad(DecimalText(dt.y), 4) \o <<"-">> \o ZeroPad(DecimalText(dt.m), 2)
      \o <<"-">> \o ZeroPad(DecimalText(dt.d), 2)
DateScore(dt) == dt.y * 10000 + dt.m * 100 + dt.d

\* The hash of an indexed movie: its release_date is the indexed date, or it is
\* absent, or it is another date than the indexed one (an index that lags).
NewHash(k, dt, v) ==
    CASE v = 1 -> [NoHash EXCEPT !.title = Str(<<k>>), !.release_date = Str(DateText(dt))]
      [] v = 2 -> NoHash
      [] v = 3 -> [NoHash EXCEPT !.title = Str(<<k>>),
                     !.release_date = Str(DateText([y |-> 1999, m |-> 12, d |-> 31]))]

InitNew ==
    /\ tmdb_movies = <<>>
    /\ \E n \in 0..MaxMovies :
         \E dts \in [1..n -> Dates], v \in [1..n -> 1..3] :
           /\ \A i \in 1..n, j \in 1..n : i < j => DateScore(dts[i]) >= DateScore(dts[j])
           /\ zsets = [NoIndexes EXCEPT !.release_date =
                         [i \in 1..n |-> [member |-> KeyNames[i], score |-> DateScore(dts[i])]]]
           /\ hashes = [k \in Keys |->
                          IF \E i \in 1..n : KeyNames[i] = k
                          THEN LET i == CHOOSE i \in 1..n : KeyNames[i] = k
                               IN  NewHash(k, dts[i], v[i])
                          ELSE NoHash]
    /\ title_to_key = NoTitles
    /\ Idle

NextNew == new_releases_call
SpecNew == InitNew /\ [][NextNew]_vars

\* A returned release_date string parsed to YYYYMMDD: the digits of YYYY-MM-DD.
\* ok is false for a string that is not ten characters of that shape.
ParseYMD(t) ==
    IF /\ Len(t) = 10
       /\ t[5] = "-" /\ t[8] = "-"
       /\ \A i \in {1, 2, 3, 4, 6, 7, 9, 10} : t[i] \in Digits
    THEN [ok |-> TRUE,
          v |-> DigitsVal(SubSeq(t, 1, 4) \o SubSeq(t, 6, 7) \o SubSeq(t, 9, 10))]
    ELSE [ok |-> FALSE, v |-> 0]

\* Every index entry's score is the YYYYMMDD encoding of its hash's release_date.
ReleaseIndexConsistent ==
    \A i \in 1..Len(zsets.release_date) :
      LET e == zsets.release_date[i]
          p == ParseYMD(hashes[e.member].release_date.text)
      IN  hashes[e.member].release_date.some /\ p.ok /\ p.v = e.score

\* C4 as stated: for every store content, min_year and limit, every returned
\* release_date parses to a YYYYMMDD integer >= the encoding of min_year-01-01,
\* and at most `limit` rows are returned.
C4_NewReleasesAsStated ==
    pc = "done" =>
      /\ Len(ret) <= args.limit
      /\ \A j \in 1..Len(ret) :
           /\ ParseYMD(ret[j].date).ok
           /\ ParseYMD(ret[j].date).v >= args.min_year * 10000 + 101

\* C4 amended: the same, for every store content in which each release_date
\* index entry's score is the YYYYMMDD encoding of the release_date of its hash.
C4_NewReleasesConsistentIndex ==
    ReleaseIndexConsistent => C4_NewReleasesAsStated

\* C4 witness: a consistent store, a min_year that excludes an indexed movie, and
\* a limit that cuts the matching ones.
C4_Witness ==
    /\ pc = "done"
    /\ ReleaseIndexConsistent
    /\ Len(zsets.release_date) = 3
    /\ args.min_year = 2000
    /\ args.limit = 1
    /\ Len(ret) = 1
    /\ zsets.release_date[2].score >= 20000101
    /\ zsets.release_date[3].score < 20000101

\* ------------------------------------------------------ get_genre_distribution

\* The serialized genres text is a sequence of JSON tokens. An object literal is
\* one token; these are the objects of the model, with the value of g.get("name").
ObjAction == "{id:28,name:'Action'}"
ObjDrama == "{id:18,name:'Drama'}"
ObjPadded == "{id:18,name:' Drama '}"
ObjBlank == "{id:1,name:' '}"
ObjNull == "{id:2,name:null}"
ObjNoName == "{id:3}"
ObjTokens == {ObjAction, ObjDrama, ObjPadded, ObjBlank, ObjNull, ObjNoName}
ScalarTokens == {"5", "null", "'x'"}

ObjName(tok) ==
    CASE tok = ObjAction -> Str(<<"Action">>)
      [] tok = ObjDrama -> Str(<<"Drama">>)
      [] tok = ObjPadded -> Str(<<" ", "Drama", " ">>)
      [] tok = ObjBlank -> Str(<<" ">>)
      [] tok = ObjNull -> None
      [] tok = ObjNoName -> None

\* json.loads(text): a list "[" e "," e ... "]", a lone object or scalar; anything
\* else raises (ok is false). elems are the element tokens of a list.
json_loads(t) ==
    LET inner == SubSeq(t, 2, Len(t) - 1)
    IN  IF Len(t) = 1 /\ t[1] \in ObjTokens
          THEN [ok |-> TRUE, kind |-> "dict", elems |-> <<>>]
        ELSE IF Len(t) = 1 /\ t[1] \in ScalarTokens
          THEN [ok |-> TRUE, kind |-> "scalar", elems |-> <<>>]
        ELSE IF /\ Len(t) >= 2 /\ t[1] = "[" /\ t[Len(t)] = "]"
                /\ (Len(inner) = 0 \/ Len(inner) % 2 = 1)
                /\ \A i \in 1..Len(inner) :
                     IF i % 2 = 1 THEN inner[i] \in ObjTokens \union ScalarTokens
                     ELSE inner[i] = ","
          THEN [ok |-> TRUE, kind |-> "list",
                elems |-> [i \in 1..((Len(inner) + 1) \div 2) |-> inner[2 * i - 1]]]
        ELSE [ok |-> FALSE, kind |-> "error", elems |-> <<>>]

\* counts[name] = counts.get(name, 0) + 1, on a dict kept in insertion order.
Bump(counts, name) ==
    IF \E i \in 1..Len(counts) : counts[i].name = name
    THEN [i \in 1..Len(counts) |->
            IF counts[i].name = name THEN [counts[i] EXCEPT !.n = @ + 1] ELSE counts[i]]
    ELSE Append(counts, [name |-> name, n |-> 1])

\* if name:
GenreNamed_any(name) == TRUE
GenreNamed(name) == name # <<>>

\* for g in arr: name = (g.get("name") or "").strip(); if name: count it.
\* An element without .get raises: the loop stops there, and what it has
\* counted so far stays counted.
RECURSIVE GenreElems(_, _)
GenreElems(elems, counts) ==
    IF elems = <<>> THEN counts
    ELSE IF elems[1] \notin ObjTokens THEN counts
    ELSE LET got  == ObjName(elems[1])
             name == strip(IF Truthy(got) THEN got.text ELSE <<>>)
         IN  GenreElems(Tail(elems),
                        IF GenreNamed(name) THEN Bump(counts, name) ELSE counts)

\* The body of the loop over the records, for one genres_json.
GenreRecord(genres_json, counts) ==
    IF ~Truthy(genres_json) THEN counts
    ELSE LET arr == json_loads(genres_json.text)
         IN  IF ~arr.ok THEN counts
             ELSE IF arr.kind = "list" THEN GenreElems(arr.elems, counts)
             ELSE counts   \* a dict's keys and a scalar raise before any count

RECURSIVE GenreTally(_, _)
GenreTally(pairs, counts) ==
    IF pairs = <<>> THEN counts
    ELSE GenreTally(Tail(pairs), GenreRecord(pairs[1].vals[1], counts))

\* sorted(items, key=count, reverse=True): stable, so ties keep insertion order.
RECURSIVE InsertDesc(_, _)
InsertDesc(sorted, item) ==
    IF sorted = <<>> THEN <<item>>
    ELSE IF sorted[1].n >= item.n THEN <<sorted[1]>> \o InsertDesc(Tail(sorted), item)
    ELSE <<item>> \o sorted
RECURSIVE SortDesc(_)
SortDesc(items) ==
    IF items = <<>> THEN <<>>
    ELSE InsertDesc(SortDesc(SubSeq(items, 1, Len(items) - 1)), items[Len(items)])

get_genre_distribution(top_n) ==
    Slice(SortDesc(GenreTally(iter_movies_fields(<<"genres">>, 300), <<>>)), 0, top_n)

genre_call ==
    /\ pc = "idle"
    /\ \E n \in 0..MaxLimit :
         /\ args' = [op |-> "get_genre_distribution", top_n |-> n]
         /\ ret' = get_genre_distribution(n)
    /\ pc' = "done"
    /\ trips' = 1 + (IF tmdb_movies = <<>> THEN 0 ELSE 1)
    /\ UNCHANGED <<store, loc>>

GenrePayloads ==
    {None,
     Str(<<>>),
     Str(<<"[", "]">>),
     Str(<<"[", ObjAction, "]">>),
     Str(<<"[", ObjDrama, ",", ObjAction, "]">>),
     Str(<<"[", ObjBlank, ",", ObjPadded, ",", ObjNull, ",", ObjNoName, "]">>),
     Str(<<"[", ObjAction, ",", "5", "]">>),
     Str(<<"[", "5", ",", ObjAction, "]">>),
     Str(<<"[", ObjAction, ",">>),
     Str(<<"5">>),
     Str(<<ObjAction>>)}

InitGenre ==
    /\ \E n \in 0..MaxMovies :
         /\ tmdb_movies = [i \in 1..n |-> KeyNames[i]]
         /\ \E g \in [Keys -> GenrePayloads] :
              /\ \A k \in Keys : (\A i \in 1..n : KeyNames[i] # k) => g[k] = None
              /\ hashes = [k \in Keys |-> [NoHash EXCEPT !.genres = g[k]]]
    /\ zsets = NoIndexes
    /\ title_to_key = NoTitles
    /\ Idle

NextGenre == genre_call
SpecGenre == InitGenre /\ [][NextGenre]_vars

RECURSIVE SumCounts(_)
SumCounts(items) == IF items = <<>> THEN 0 ELSE items[1].n + SumCounts(Tail(items))

\* The genre occurrences of one record: the objects in its list, if it is one.
Occurrences(genres_json) ==
    IF ~genres_json.some \/ ~json_loads(genres_json.text).ok THEN 0
    ELSE Cardinality({i \in 1..Len(json_loads(genres_json.text).elems) :
                        json_loads(genres_json.text).elems[i] \in ObjTokens})
RECURSIVE TotalOccurrences(_)
TotalOccurrences(i) ==
    IF i = 0 THEN 0
    ELSE Occurrences(hashes[tmdb_movies[i]].genres) + TotalOccurrences(i - 1)

\* C7: the counts get_genre_distribution returns sum to at most the number of
\* genre occurrences in all records, come in descending order, are at most
\* top_n, and carry no empty or blank-only name (and no name twice).
C7_GenreDistribution ==
    pc = "done" =>
      /\ SumCounts(ret) <= TotalOccurrences(Len(tmdb_movies))
      /\ Len(ret) <= args.top_n
      /\ \A i, j \in 1..Len(ret) : i < j => ret[i].n >= ret[j].n /\ ret[i].name # ret[j].name
      /\ \A i \in 1..Len(ret) :
           /\ ret[i].n >= 1
           /\ \E c \in 1..Len(ret[i].name) : ret[i].name[c] # " "

\* C7 witness: two genres with different counts, a padded name counted under its
\* trimmed form, a blank name in the store, and a top_n that cuts the list.
C7_Witness ==
    /\ pc = "done"
    /\ args.top_n = 1
    /\ ret = <<[name |-> <<"Drama">>, n |-> 2]>>
    /\ \E k \in Keys : hashes[k].genres.some /\ ObjBlank \in Range(hashes[k].genres.text)
    /\ \E k \in Keys : hashes[k].genres.some /\ ObjAction \in Range(hashes[k].genres.text)

\* A well-formed payload: it parses to a list whose elements are all objects.
WellFormed(genres_json) ==
    /\ genres_json.some
    /\ json_loads(genres_json.text).ok
    /\ json_loads(genres_json.text).kind = "list"
    /\ \A i \in 1..Len(json_loads(genres_json.text).elems) :
         json_loads(genres_json.text).elems[i] \in ObjTokens

\* C10: a malformed genres payload adds nothing to any count, so the result is
\* the tally over the well-formed records only.
C10_MalformedAddsNothing ==
    pc = "done" =>
      ret = Slice(SortDesc(GenreTally(
                    SelectSeq(iter_movies_fields(<<"genres">>, 300),
                              LAMBDA p : WellFormed(p.vals[1])), <<>>)), 0, args.top_n)

\* ---------------------------------------------------- get_runtime_distribution

\* v = float(rt) if rt is not None and rt != "" else None (None on an exception);
\* if v and v > 0: runtimes.append(v)
RuntimeKept(rt) ==
    /\ rt.some
    /\ rt.text # <<>>
    /\ float(rt.text).ok
    /\ float(rt.text) # Num(0)
    /\ FloatGt(float(rt.text), 0)

RECURSIVE RuntimeList(_)
RuntimeList(pairs) ==
    IF pairs = <<>> THEN <<>>
    ELSE (IF RuntimeKept(pairs[1].vals[1]) THEN <<float(pairs[1].vals[1].text)>> ELSE <<>>)
         \o RuntimeList(Tail(pairs))

RECURSIVE FloatSum(_)
FloatSum(arr) == IF arr = <<>> THEN 0 ELSE arr[1].v + FloatSum(Tail(arr))

\* float(np.mean(arr)) if arr.size > 0 else 0.0, kept as the exact quotient
\* total / count (inf as soon as arr holds an inf).
FloatMean(arr) ==
    IF arr = <<>> THEN [inf |-> FALSE, total |-> 0, count |-> 1]
    ELSE IF \E i \in 1..Len(arr) : arr[i].kind = "inf"
         THEN [inf |-> TRUE, total |-> 0, count |-> Len(arr)]
         ELSE [inf |-> FALSE, total |-> FloatSum(arr), count |-> Len(arr)]

get_runtime_distribution ==
    LET arr == RuntimeList(iter_movies_fields(<<"runtime">>, 300))
    IN  [arr |-> arr, mean_v |-> FloatMean(arr)]

\* np.histogram(arr, bins=[0, 60, 90, 120, 150, 180, 240, 9999]): bin b counts
\* edge[b] <= x < edge[b + 1], the last bin also x = its right edge; a value
\* outside the edges is counted nowhere.
bins == <<0, 60, 90, 120, 150, 180, 240, 9999>>
InBin(x, b) ==
    /\ x.kind = "num"
    /\ x.v >= bins[b] * 10
    /\ IF b = Len(bins) - 1 THEN x.v <= bins[b + 1] * 10 ELSE x.v < bins[b + 1] * 10
histogram(arr) ==
    [b \in 1..(Len(bins) - 1) |-> Cardinality({i \in 1..Len(arr) : InBin(arr[i], b)})]

\* The runtime tab: the distribution, and its histogram if arr.size > 0.
runtime_call ==
    /\ pc = "idle"
    /\ args' = [op |-> "get_runtime_distribution"]
    /\ LET r == get_runtime_distribution
       IN  ret' = <<[arr |-> r.arr, mean_v |-> r.mean_v,
                     hist |-> IF r.arr # <<>> THEN histogram(r.arr) ELSE <<>>]>>
    /\ pc' = "done"
    /\ trips' = 1 + (IF tmdb_movies = <<>> THEN 0 ELSE 1)
    /\ UNCHANGED <<store, loc>>

RuntimeTexts ==
    {None, Str(<<>>), Str(<<"x">>), Str(<<"0">>), Str(<<"-", "5">>), Str(<<"0", ".", "5">>),
     Str(<<"6", "0">>), Str(<<"2", "4", "0", ".", "5">>), Str(<<"9", "9", "9", "9">>),
     Str(<<"1", "0", "0", "0", "0">>), Str(<<"n", "a", "n">>)}

InitRuntime ==
    /\ \E n \in 0..MaxMovies :
         /\ tmdb_movies = [i \in 1..n |-> KeyNames[i]]
         /\ \E rt \in [1..n -> RuntimeTexts] :
              hashes = [k \in Keys |->
                          IF \E i \in 1..n : KeyNames[i] = k
                          THEN [NoHash EXCEPT !.runtime =
                                  rt[CHOOSE i \in 1..n : KeyNames[i] = k]]
                          ELSE NoHash]
    /\ zsets = NoIndexes
    /\ title_to_key = NoTitles
    /\ Idle

NextRuntime == runtime_call
SpecRuntime == InitRuntime /\ [][NextRuntime]_vars

RECURSIVE SumSeq(_)
SumSeq(q) == IF q = <<>> THEN 0 ELSE q[1] + SumSeq(Tail(q))

\* A record whose runtime is a strictly positive number.
PositiveRuntime(k) ==
    /\ hashes[k].runtime.some
    /\ float(hashes[k].runtime.text).ok
    /\ float(hashes[k].runtime.text).kind = "num"
    /\ float(hashes[k].runtime.text).v > 0

\* C2 (second half): a record whose runtime is 0, absent, empty or not a number
\* is in no bucket and not in the mean: arr holds exactly the positive runtimes.
C2_OnlyPositiveKept ==
    pc = "done" =>
      /\ Len(ret[1].arr) = Cardinality({i \in 1..Len(tmdb_movies) : PositiveRuntime(tmdb_movies[i])})
      /\ ret[1].mean_v.count = Max(Len(ret[1].arr), 1)
      /\ SumSeq(ret[1].hist) <= Len(ret[1].arr)

\* C2: the counts of the seven buckets sum to the number of records whose
\* runtime is a strictly positive number, and the other records are in no
\* bucket and not in the mean.
C2_BucketsSumToPositive ==
    pc = "done" =>
      /\ SumSeq(ret[1].hist) =
           Cardinality({i \in 1..Len(tmdb_movies) : PositiveRuntime(tmdb_movies[i])})
      /\ Len(ret[1].arr) = Cardinality({i \in 1..Len(tmdb_movies) : PositiveRuntime(tmdb_movies[i])})

\* ----------------------------------------------------- search_by_title_keyword

\* str.lower() on the letters of the model.
LowerChar(c) == CASE c = "A" -> "a" [] c = "B" -> "b" [] OTHER -> c
lower(t) == [i \in 1..Len(t) |-> LowerChar(t[i])]

\* needle in hay (substring containment).
Contains(hay, needle) ==
    \E i \in 0..(Len(hay) - Len(needle)) : SubSeq(hay, i + 1, i + Len(needle)) = needle

\* if t and needle in t.lower()
TitleMatches(t, needle) == Truthy(t) /\ Contains(lower(t.text), needle)

\* for t in titles: a match is appended, and the function returns as soon as
\* len(results) >= max_results, which is tested only after an append.
RECURSIVE SearchTitles(_, _, _, _)
SearchTitles(titles, results, needle, max_results) ==
    IF titles = <<>> THEN [returned |-> FALSE, results |-> results]
    ELSE IF TitleMatches(titles[1], needle)
    THEN LET r2 == Append(results, titles[1].text)
         IN  IF Len(r2) >= max_results THEN [returned |-> TRUE, results |-> r2]
             ELSE SearchTitles(Tail(titles), r2, needle, max_results)
    ELSE SearchTitles(Tail(titles), results, needle, max_results)

Keywords ==
    {<<>>, <<" ">>, <<"a">>, <<" ", "A", " ">>, <<"a", "b">>, <<"B">>}

\* needle = (keyword or "").lower().strip(); if not needle: return []
search_blank ==
    /\ pc = "idle"
    /\ \E kw \in Keywords, mr \in 0..MaxLimit :
         /\ strip(lower(kw)) = <<>>
         /\ args' = [op |-> "search_by_title_keyword", keyword |-> kw, max_results |-> mr]
    /\ ret' = <<>>
    /\ pc' = "done"
    /\ UNCHANGED <<store, loc, trips>>

\* ... else movies = list(db.smembers("tmdb:movies")).
search_call ==
    /\ pc = "idle"
    /\ \E kw \in Keywords, mr \in 0..MaxLimit :
         /\ strip(lower(kw)) # <<>>
         /\ args' = [op |-> "search_by_title_keyword", keyword |-> kw, max_results |-> mr]
         /\ loc' = [needle |-> strip(lower(kw)), movies |-> tmdb_movies, i |-> 0,
                    results |-> <<>>]
    /\ pc' = "search_loop"
    /\ trips' = trips + 1
    /\ UNCHANGED <<store, ret>>

\* One iteration of `for i in range(0, len(movies), batch_size)`: one pipelined
\* round trip for the titles of the batch, then the scan of these titles.
search_batch ==
    /\ pc = "search_loop"
    /\ loc.i < Len(loc.movies)
    /\ LET batch  == Slice(loc.movies, loc.i, loc.i + SearchBatch)
           titles == [j \in 1..Len(batch) |-> hmget(batch[j], <<"title">>)[1]]
           out    == SearchTitles(titles, loc.results, loc.needle, args.max_results)
       IN  /\ loc' = [loc EXCEPT !.results = out.results, !.i = @ + SearchBatch]
           /\ pc' = IF out.returned THEN "done" ELSE "search_loop"
           /\ ret' = IF out.returned THEN out.results ELSE ret
    /\ trips' = trips + 1
    /\ UNCHANGED <<store, args>>

search_end ==
    /\ pc = "search_loop"
    /\ loc.i >= Len(loc.movies)
    /\ pc' = "done"
    /\ ret' = loc.results
    /\ UNCHANGED <<store, args, loc, trips>>

SearchTitleTexts ==
    {None, Str(<<>>), Str(<<"A", "b">>), Str(<<"b", "a">>), Str(<<"B">>), Str(<<"a", " ", "b">>)}

InitSearch ==
    /\ \E n \in 0..MaxMovies :
         /\ tmdb_movies = [i \in 1..n |-> KeyNames[i]]
         /\ \E tt \in [1..n -> SearchTitleTexts] :
              hashes = [k \in Keys |->
                          IF \E i \in 1..n : KeyNames[i] = k
                          THEN [NoHash EXCEPT !.title =
                                  tt[CHOOSE i \in 1..n : KeyNames[i] = k]]
                          ELSE NoHash]
    /\ zsets = NoIndexes
    /\ title_to_key = NoTitles
    /\ Idle

NextSearch == search_blank \/ search_call \/ search_batch \/ search_end
SpecSearch == InitSearch /\ [][NextSearch]_vars

\* The claim's reading of a match, and the positions (in scan order) that match.
SearchNeedle == strip(lower(args.keyword))
SearchMatchAt(i) ==
    LET t == hashes[tmdb_movies[i]].title
    IN  t.some /\ Contains(lower(t.text), SearchNeedle)
SearchMatchSeq ==
    SelectSeq([i \in 1..Len(tmdb_movies) |-> i], LAMBDA i : SearchMatchAt(i))

\* C8 (result): for a non-blank query the result is the titles of the first
\* min(max_results, number of matches) matching records in scan order, so never
\* more than max_results titles.
C8_SearchResult ==
    (pc = "done" /\ SearchNeedle # <<>>) =>
      /\ Len(ret) <= args.max_results
      /\ ret = [j \in 1..Min(args.max_results, Len(SearchMatchSeq)) |->
                  hashes[tmdb_movies[SearchMatchSeq[j]]].title.text]

\* C8 (round trips): once the max_results-th match is found no further batch is
\* fetched: the batches fetched are those up to the one holding that match, or
\* all of them when there are fewer matches.
C8_SearchRoundTrips ==
    (pc = "done" /\ SearchNeedle # <<>> /\ args.max_results >= 1) =>
      LET nb == (Len(tmdb_movies) + SearchBatch - 1) \div SearchBatch
      IN  trips = 1 + (IF Len(SearchMatchSeq) >= args.max_results
                       THEN (SearchMatchSeq[args.max_results] + SearchBatch - 1) \div SearchBatch
                       ELSE nb)

\* C8: keyword search returns the first min(max_results, matches) matching titles
\* in scan order, never more than max_results, and stops fetching batches at the
\* max_results-th match (the claim as stated, for every max_results).
C8_KeywordSearch == C8_SearchResult /\ C8_SearchRoundTrips

\* ------------------------------------------------- get_rating_vs_votes_sample

\* The loop over the records: a pair is kept when both coerced values are > 0,
\* and the loop breaks once len(xs) >= max_points (tested at every record).
RECURSIVE SamplePairs(_, _, _)
SamplePairs(pairs, pts, max_points) ==
    IF pairs = <<>> THEN pts
    ELSE LET vote_avg == safe_float(pairs[1].vals[1], Num(0))
             vote_cnt == safe_float(pairs[1].vals[2], Num(0))
             p2 == IF FloatGt(vote_avg, 0) /\ FloatGt(vote_cnt, 0)
                   THEN Append(pts, [x |-> vote_cnt, y |-> vote_avg])
                   ELSE pts
         IN  IF Len(p2) >= max_points THEN p2
             ELSE SamplePairs(Tail(pairs), p2, max_points)

get_rating_vs_votes_sample(max_points) ==
    SamplePairs(iter_movies_fields(<<"vote_average", "vote_count">>, 300), <<>>, max_points)

sample_call ==
    /\ pc = "idle"
    /\ \E mp \in 1..MaxLimit :
         /\ args' = [op |-> "get_rating_vs_votes_sample", max_points |-> mp]
         /\ ret' = get_rating_vs_votes_sample(mp)
    /\ pc' = "done"
    /\ trips' = 1 + (IF tmdb_movies = <<>> THEN 0 ELSE 1)
    /\ UNCHANGED <<store, loc>>

\* ------------------------------------------------------------ lookup_by_title

LookupFields ==
    <<"title", "release_date", "runtime", "vote_average", "vote_count", "popularity",
      "revenue", "genres", "overview">>

\* db.hget("tmdb:idx:title_to_key", t): the key, or "" (None) without an entry.
TitleKey(t) == IF t \in DOMAIN title_to_key THEN title_to_key[t] ELSE ""

\* The payload after "normalize types"; raised when int(safe_float(vote_count))
\* raises. found is false for `return None`.
lookup_by_title(title) ==
    LET key == TitleKey(lower(strip(title)))
    IN  IF key = "" THEN [found |-> FALSE, raised |-> FALSE, payload |-> <<>>]
        ELSE LET values == hmget(key, LookupFields)
                 vcount == int(safe_float(values[5], Num(0)))
                 gtext  == IF Truthy(values[8]) THEN values[8].text ELSE <<"[", "]">>
             IN  IF ~vcount.ok THEN [found |-> TRUE, raised |-> TRUE, payload |-> <<>>]
                 ELSE [found |-> TRUE, raised |-> FALSE,
                       payload |-> [title |-> values[1],
                                    vote_average |-> safe_float(values[4], Num(0)),
                                    vote_count |-> vcount.v,
                                    popularity |-> safe_float(values[6], Num(0)),
                                    revenue |-> safe_float(values[7], Num(0)),
                                    genres |-> IF json_loads(gtext).ok
                                               THEN json_loads(gtext)
                                               ELSE json_loads(<<"[", "]">>)]]

LookupTitles == {<<" ", "A", " ">>, <<"b">>, <<"z">>, <<>>}

lookup_call ==
    /\ pc = "idle"
    /\ \E t \in LookupTitles :
         /\ args' = [op |-> "lookup_by_title", title |-> t]
         /\ ret' = <<lookup_by_title(t)>>
         /\ pc' = IF lookup_by_title(t).raised THEN "raised" ELSE "done"
         /\ trips' = IF lookup_by_title(t).found THEN 2 ELSE 1
    /\ UNCHANGED <<store, loc>>

\* ------------------------------------------------ stores with malformed fields

NumericFields == <<"popularity", "revenue", "vote_average", "vote_count", "runtime">>
\* absent, empty, text that is no number, nan, inf
BadTexts ==
    <<None, Str(<<>>), Str(<<"x">>), Str(<<"n", "a", "n">>), Str(<<"i", "n", "f">>)>>

GoodHash(i) ==
    [NoHash EXCEPT !.title = Str(<<IF i = 1 THEN "A" ELSE "b">>),
                   !.release_date = Str(<<"2", "0", "0", "0", "-", "0", "1", "-", "0", "1">>),
                   !.runtime = Str(<<"1", "0", "0">>),
                   !.vote_average = Str(<<"8", ".", "5">>),
                   !.vote_count = Str(<<"5", "0", "0", "0">>),
                   !.popularity = Str(<<"7", ".", "5">>),
                   !.revenue = Str(<<"9", "0", "0">>),
                   !.genres = Str(<<"[", ObjAction, "]">>)]

\* Record i with field f (0: none) replaced by bad text b.
CoerceHash(i, f, b) ==
    IF f = 0 THEN GoodHash(i) ELSE [GoodHash(i) EXCEPT ![NumericFields[f]] = BadTexts[b]]

InitCoerce ==
    /\ \E n \in 0..MaxCoerce :
         /\ tmdb_movies = [i \in 1..n |-> KeyNames[i]]
         /\ zsets = [x \in DOMAIN NoIndexes |-> RankedIndex(n)]
         /\ title_to_key = [t \in {<<IF i = 1 THEN "a" ELSE "b">> : i \in 1..Min(n, 2)} |->
                              IF t = <<"a">> THEN KeyNames[1] ELSE KeyNames[2]]
         /\ \E f \in [1..n -> 0..Len(NumericFields)], b \in [1..n -> 1..Len(BadTexts)] :
              /\ \A i \in 1..n : f[i] = 0 => b[i] = 1
              /\ hashes = [k \in Keys |->
                             IF \E i \in 1..n : KeyNames[i] = k
                             THEN LET i == CHOOSE i \in 1..n : KeyNames[i] = k
                                  IN  CoerceHash(i, f[i], b[i])
                             ELSE NoHash]
    /\ Idle

NextCoerce ==
    \/ top_popular_call
    \/ box_office_call
    \/ best_call
    \/ best_page
    \/ best_empty_page
    \/ best_return
    \/ runtime_call
    \/ sample_call
    \/ lookup_call
SpecCoerce == InitCoerce /\ [][NextCoerce]_vars

\* C5: with any numeric attribute of any record absent, empty or text that is no
\* usable number, every query completes with a result (no call ends in an
\* exception), and the ranking rows carry the default 0.0 for a field that does
\* not parse.
C5_NoQueryRaises ==
    /\ pc # "raised"
    /\ (pc = "done" /\ args.op \in {"get_top_popular", "get_box_office_top"}) =>
         \A j \in 1..Len(ret) :
           LET v == hashes[zsets[TopIndexOf][j].member][TopIndexOf]
           IN  (~v.some \/ ~float(v.text).ok) => ret[j].value = Num(0)

====
